---- MODULE Spec2Model ----
(***************************************************************************)
(* Model of wyze_plugin.py: the JSON-RPC control loop (run_jsonrpc,        *)
(* WyzePlugin.handle_request and its handlers), the authentication cache   *)
(* (load_auth_cache, save_auth_cache, WyzeAuth.login) and the files the    *)
(* process shares with its stream subprocesses.                            *)
(***************************************************************************)
EXTENDS Integers, Sequences, FiniteSets, TLC

VARIABLES
    pc,        \* run_jsonrpc: "read" | "handle" | "eof" | "crashed" | "exited"
    line,      \* the stripped, non-empty input line read last
    plugin,    \* the WyzePlugin instance: config, auth, tutk_lib, running
    fs,        \* files in PLUGIN_DIR: config.json, auth_cache.json, lib/lib.<arch>
    now,       \* time.time(), in seconds since the process started
    written,   \* response lines printed for the line read last
    response,  \* the response line printed last
    hist,      \* history: was initialize requested, did one succeed, and
               \* the running flag before the request handled last
    streams,   \* native sessions open in stream subprocesses, per device
    sc         \* one stream_camera run: its position, session, frames, calls

vars == <<pc, line, plugin, fs, now, written, response, hist, streams, sc>>

-----------------------------------------------------------------------------
(* Bounds of the model *)

\* cache lifetimes the clock is advanced over
MaxTicks == 1

\* stream subprocesses the media server runs at once
MaxStreams == 2

\* frames a session yields before it ends or fails
MaxFrames == 3

\* [auth_cache] seconds a cache stays valid (load_auth_cache)
CACHE_TTL == 3600

\* steps by which the clock advances: just under and exactly one TTL
TickSteps == {CACHE_TTL - 1, CACHE_TTL}

\* latest time the clock is advanced to
MaxNow == MaxTicks * CACHE_TTL

-----------------------------------------------------------------------------
(* Python / JSON values.  Values read from JSON text are tagged with their  *)
(* JSON type; values built by the program are plain.                        *)

\* JArr is the empty array [], the value that stands for every JSON array
None == [t |-> "none"]
JStr(s) == [t |-> "str", s |-> s]
JNum(n) == [t |-> "num", n |-> n]
JArr == [t |-> "arr"]
JObj(o) == [t |-> "obj", o |-> o]
EmptyDict == [k \in {} |-> None]

IsDict(v) == v.t = "obj"

\* dict.get(key, default) on a decoded JSON object
Get(obj, key, default) == IF key \in DOMAIN obj.o THEN obj.o[key] ELSE default

\* Python truthiness of a decoded JSON value (`not email`, `name or ...`)
Truthy(v) ==
    CASE v.t = "none" -> FALSE
      [] v.t = "str" -> v.s # ""
      [] v.t = "num" -> v.n # 0
      [] v.t = "arr" -> FALSE
      [] v.t = "obj" -> DOMAIN v.o # {}

\* str == decoded JSON value
StrEq(s, v) == v.t = "str" /\ v.s = s

-----------------------------------------------------------------------------
(* Dicts that keep insertion order (WyzeAuth.cameras): sequences of [k, v] *)

DictKeys(d) == {d[i].k : i \in 1..Len(d)}
DictHas(d, k) == k \in DictKeys(d)
DictGet(d, k) == d[CHOOSE i \in 1..Len(d) : d[i].k = k].v
DictSet(d, k, v) ==
    IF DictHas(d, k)
    THEN [i \in 1..Len(d) |-> IF d[i].k = k THEN [k |-> k, v |-> v] ELSE d[i]]
    ELSE Append(d, [k |-> k, v |-> v])

RECURSIVE DictUpdate(_, _)
\* for camera in cams: d[camera.mac] = camera
DictUpdate(d, cams) ==
    IF cams = <<>> THEN d
    ELSE DictUpdate(DictSet(d, Head(cams).mac, Head(cams)), Tail(cams))

-----------------------------------------------------------------------------
(* Devices the vendor inventory can deliver *)

Macs == {"m1", "m2"}

Camera(mac, nickname, model, ip, audio, enr) ==
    [mac |-> mac, nickname |-> nickname, product_model |-> model,
     ip |-> ip, audio |-> audio, firmware_ver |-> "4.36",
     p2p_id |-> "p2p", enr |-> enr]

CamFront == Camera("m1", "Front", "WYZECP1", "10.0.0.2", TRUE, "enr")
CamPorch == Camera("m1", "Porch", "WYZECP1", "10.0.0.2", TRUE, "enr")
CamYard == Camera("m2", "Yard", "WYZE_CAKP2JFUS", "", FALSE, "")

\* results of wyzecam.get_camera_list
Inventories == {<<>>, <<CamFront>>, <<CamYard>>, <<CamPorch, CamYard>>}

Credential == [t |-> "cred"]
Account == [t |-> "account", nickname |-> "owner"]

-----------------------------------------------------------------------------
(* Files.  config.json holds the params of the last initialize; the auth   *)
(* cache is absent, unreadable, or a JSON object.  A cache written by      *)
(* another version of the library can fail model_validate at `bad`:        *)
(* "auth_info", "account", or the mac of the first camera entry that fails.*)

NoFile == [t |-> "absent"]
LibPath == JStr("lib/lib.amd64")
Garbage == [t |-> "garbage"]
CacheFile(cached_at, cameras, bad) ==
    [t |-> "cache", cached_at |-> cached_at, cameras |-> cameras, bad |-> bad]

\* mutant: a cache of age exactly CACHE_TTL still counts as valid
load_auth_cache_Inclusive(files, time) ==
    IF files.cache.t = "cache" /\ time - files.cache.cached_at <= CACHE_TTL
    THEN files.cache
    ELSE None

\* load_auth_cache: the cache object, or None
load_auth_cache(files, time) ==
    IF files.cache.t = "cache" /\ time - files.cache.cached_at < CACHE_TTL
    THEN files.cache
    ELSE None

\* save_auth_cache: saved = FALSE is an exception caught and logged
save_auth_cache(files, time, cameras, saved) ==
    IF saved
    THEN [files EXCEPT !.cache = CacheFile(time, cameras, "none")]
    ELSE files

\* get_tutk_library: [lib, fs]; lib = None when the download fails
get_tutk_library(files, downloaded) ==
    IF files.lib THEN [lib |-> LibPath, fs |-> files]
    ELSE IF downloaded THEN [lib |-> LibPath, fs |-> [files EXCEPT !.lib = TRUE]]
    ELSE [lib |-> None, fs |-> files]

-----------------------------------------------------------------------------
(* What the collaborators do during one call: the first external call that *)
(* fails if it is reached, the inventory delivered, and whether the cache  *)
(* file could be written.                                                  *)

FailPoints == {"none", "save_config", "tutk", "login", "account", "list"}

Envs ==
    [failAt : FailPoints \ {"none"}, inventory : {<<>>}, cacheSaved : {FALSE}]
    \cup [failAt : {"none"}, inventory : Inventories, cacheSaved : BOOLEAN]

\* a call that reaches no collaborator
NoEnv == [failAt |-> "none", inventory |-> <<>>, cacheSaved |-> FALSE]

-----------------------------------------------------------------------------
(* WyzeAuth *)

\* WyzeAuth.__init__
WyzeAuth(config) ==
    [t |-> "auth", config |-> config, auth_info |-> None, account |-> None, cameras |-> <<>>]

RECURSIVE LoadCachedCameras(_, _, _)
\* the loop of login over cache["cameras"]: stops at the entry that fails
LoadCachedCameras(auth, entries, bad) ==
    IF entries = <<>> THEN [auth |-> auth, ok |-> TRUE]
    ELSE IF Head(entries).k = bad THEN [auth |-> auth, ok |-> FALSE]
    ELSE LoadCachedCameras(
            [auth EXCEPT !.cameras = DictSet(@, Head(entries).k, Head(entries).v)],
            Tail(entries), bad)

\* the try block of login that loads the cache: [auth, ok]
LoadFromCache(auth, cache) ==
    IF cache.bad = "auth_info" THEN [auth |-> auth, ok |-> FALSE]
    ELSE LET a1 == [auth EXCEPT !.auth_info = Credential] IN
         IF cache.bad = "account" THEN [auth |-> a1, ok |-> FALSE]
         ELSE LoadCachedCameras([a1 EXCEPT !.account = Account],
                                cache.cameras, cache.bad)

\* the rest of login: credentials, wyzecam.login, account, inventory, cache
FreshLogin(auth, files, time, env) ==
    IF ~IsDict(auth.config)
    THEN [auth |-> auth, fs |-> files, raised |-> TRUE]
    ELSE IF ~Truthy(Get(auth.config, "email", None))
            \/ ~Truthy(Get(auth.config, "password", None))
    THEN [auth |-> auth, fs |-> files, raised |-> TRUE]
    ELSE IF env.failAt = "login"
    THEN [auth |-> auth, fs |-> files, raised |-> TRUE]
    ELSE LET a1 == [auth EXCEPT !.auth_info = Credential] IN
         IF env.failAt = "account"
         THEN [auth |-> a1, fs |-> files, raised |-> TRUE]
         ELSE LET a2 == [a1 EXCEPT !.account = Account] IN
              IF env.failAt = "list"
              THEN [auth |-> a2, fs |-> files, raised |-> TRUE]
              ELSE LET a3 == [a2 EXCEPT !.cameras = DictUpdate(@, env.inventory)]
                   IN [auth |-> a3,
                       fs |-> save_auth_cache(files, time, a3.cameras,
                                              env.cacheSaved),
                       raised |-> FALSE]

\* WyzeAuth.login: [auth, fs, raised]
login(auth, files, time, env) ==
    LET cache == load_auth_cache(files, time)
        tried == IF cache.t = "cache" THEN LoadFromCache(auth, cache)
                 ELSE [auth |-> auth, ok |-> FALSE]
    IN IF tried.ok
       THEN [auth |-> tried.auth, fs |-> files, raised |-> FALSE]
       ELSE FreshLogin(tried.auth, files, time, env)

\* WyzeAuth.get_camera: the camera, or None
auth_get_camera(auth, mac) ==
    IF DictHas(auth.cameras, mac) THEN DictGet(auth.cameras, mac) ELSE None

-----------------------------------------------------------------------------
(* WyzePlugin *)

\* WyzePlugin.__init__
NewPlugin ==
    [config |-> JObj(EmptyDict), auth |-> None, tutk_lib |-> None,
     running |-> TRUE]

\* save_config: json.dump(config) into config.json
save_config(files, config) == [files EXCEPT !.config = config]

\* WyzePlugin.initialize: [plugin, fs, raised, result]
initialize(p, files, time, config, env) ==
    LET p1 == [p EXCEPT !.config = config] IN
    IF env.failAt = "save_config"
    THEN [plugin |-> p1, fs |-> files, raised |-> TRUE, result |-> None]
    ELSE
    LET f1 == save_config(files, config)
        got == get_tutk_library(f1, env.failAt # "tutk")
        p2 == [p1 EXCEPT !.tutk_lib = got.lib]
    IN
    IF got.lib.t = "none"
    THEN [plugin |-> p2, fs |-> got.fs, raised |-> TRUE, result |-> None]
    ELSE
    LET l == login(WyzeAuth(config), got.fs, time, env)
        p3 == [p2 EXCEPT !.auth = l.auth]
    IN
    IF l.raised
    THEN [plugin |-> p3, fs |-> l.fs, raised |-> TRUE, result |-> None]
    ELSE [plugin |-> p3, fs |-> l.fs, raised |-> FALSE,
          result |-> [status |-> "ok", cameras |-> Len(l.auth.cameras)]]

\* mutant: a shutdown of a plugin that is not running is refused
shutdown_Once(p) ==
    [plugin |-> [p EXCEPT !.running = FALSE],
     result |-> [status |-> IF p.running THEN "ok" ELSE "stopped"]]

\* WyzePlugin.shutdown: [plugin, result]
shutdown(p) ==
    [plugin |-> [p EXCEPT !.running = FALSE], result |-> [status |-> "ok"]]

\* WyzePlugin.health
health(p, time) ==
    IF p.auth.t = "none" \/ p.auth.auth_info.t = "none"
    THEN [state |-> "unhealthy", message |-> <<"Not authenticated to Wyze">>,
          last_check |-> time, details |-> [authenticated |-> FALSE]]
    ELSE [state |-> "healthy",
          message |-> <<Len(p.auth.cameras), " cameras available">>,
          last_check |-> time,
          details |-> [cameras_total |-> Len(p.auth.cameras),
                       authenticated |-> TRUE]]

\* WyzePlugin._get_capabilities
get_capabilities(camera) ==
    <<"video">>
    \o (IF camera.audio THEN <<"audio">> ELSE <<>>)
    \o (IF camera.product_model \in {"WYZECP1", "HL_PAN2", "HL_PAN3"}
        THEN <<"ptz">> ELSE <<>>)

\* the exec: source the media server runs for a device
stream_url(mac) == <<"exec:", "venv/bin/python3", "wyze_plugin.py", "stream", mac,
                     "#video=h264">>

\* WyzePlugin.discover_cameras
discover_cameras(p) ==
    IF p.auth.t = "none" THEN <<>>
    ELSE [i \in 1..Len(p.auth.cameras) |->
            LET camera == p.auth.cameras[i].v IN
            [id |-> camera.mac, name |-> camera.nickname,
             model |-> camera.product_model, manufacturer |-> "Wyze",
             capabilities |-> get_capabilities(camera),
             firmware_version |-> camera.firmware_ver,
             serial |-> camera.mac]]

\* WyzePlugin.list_cameras
list_cameras(p, time) ==
    IF p.auth.t = "none" THEN <<>>
    ELSE [i \in 1..Len(p.auth.cameras) |->
            LET mac == p.auth.cameras[i].k
                camera == p.auth.cameras[i].v IN
            [id |-> camera.mac, plugin_id |-> "wyze", name |-> camera.nickname,
             model |-> camera.product_model, host |-> camera.ip,
             main_stream |-> stream_url(mac), sub_stream |-> "",
             snapshot_url |-> "",
             capabilities |-> get_capabilities(camera),
             online |-> TRUE, last_seen |-> time]]

\* mutant: the first camera is returned whatever id is asked for
get_camera_First(p, time, camera_id) ==
    LET cameras == list_cameras(p, time)
    IN IF cameras = <<>> THEN [found |-> FALSE, cam |-> None]
       ELSE [found |-> TRUE, cam |-> cameras[1]]

\* WyzePlugin.get_camera: [found, cam], the first entry whose id is camera_id
get_camera(p, time, camera_id) ==
    LET cameras == list_cameras(p, time)
        hits == {i \in 1..Len(cameras) : StrEq(cameras[i].id, camera_id)}
    IN IF hits = {} THEN [found |-> FALSE, cam |-> None]
       ELSE [found |-> TRUE,
             cam |-> cameras[CHOOSE i \in hits : \A j \in hits : i <= j]]

\* WyzePlugin.add_camera: [found, raised, cam]; a mac that is a list or an
\* object cannot be a dict key (TypeError)
add_camera(p, time, mac, name) ==
    IF p.auth.t = "none" THEN [found |-> FALSE, raised |-> FALSE, cam |-> None]
    ELSE IF mac.t \in {"arr", "obj"}
    THEN [found |-> FALSE, raised |-> TRUE, cam |-> None]
    ELSE IF mac.t # "str" \/ ~DictHas(p.auth.cameras, mac.s)
    THEN [found |-> FALSE, raised |-> FALSE, cam |-> None]
    ELSE LET camera == auth_get_camera(p.auth, mac.s) IN
         [found |-> TRUE, raised |-> FALSE,
          cam |-> [id |-> camera.mac, plugin_id |-> "wyze",
                   name |-> IF Truthy(name) THEN name.s ELSE camera.nickname,
                   model |-> camera.product_model, manufacturer |-> "Wyze",
                   host |-> camera.ip, main_stream |-> stream_url(mac.s),
                   sub_stream |-> "", snapshot_url |-> "",
                   capabilities |-> get_capabilities(camera),
                   online |-> TRUE, last_seen |-> time]]

-----------------------------------------------------------------------------
(* JSON-RPC responses *)

PARSE_ERROR == -32700
METHOD_NOT_FOUND == -32601
INTERNAL_ERROR == -32603

NoResponse == [t |-> "none"]

\* response = {"jsonrpc": "2.0", "id": req_id}
BaseResponse(req_id) == [jsonrpc |-> "2.0", id |-> req_id]

\* response["result"] = result
WithResult(resp, result) == ("result" :> result) @@ resp

\* response["error"] = {"code": code, "message": message}
WithError(resp, code, message) ==
    ("error" :> [code |-> code, message |-> message]) @@ resp

HasResult(resp) == "result" \in DOMAIN resp
HasError(resp) == "error" \in DOMAIN resp

KnownMethods ==
    {"initialize", "shutdown", "health", "discover_cameras", "list_cameras",
     "get_camera", "add_camera"}

IsKnownMethod(method) == method.t = "str" /\ method.s \in KnownMethods

\* the except branch of handle_request
Caught(p, files, resp) ==
    [plugin |-> p, fs |-> files,
     response |-> WithError(resp, INTERNAL_ERROR, <<"exception">>)]

\* the branches of handle_request, each [plugin, fs, response]
HandleInitialize(p, files, time, resp, params, env) ==
    LET r == initialize(p, files, time, params, env) IN
    IF r.raised THEN Caught(r.plugin, r.fs, resp)
    ELSE [plugin |-> r.plugin, fs |-> r.fs,
          response |-> WithResult(resp, r.result)]

HandleShutdown(p, files, resp) ==
    LET r == shutdown(p) IN
    [plugin |-> r.plugin, fs |-> files, response |-> WithResult(resp, r.result)]

\* mutant: a plugin that was shut down refuses to report its health
HandleHealth_WhenRunning(p, files, time, resp) ==
    IF p.running
    THEN [plugin |-> p, fs |-> files, response |-> WithResult(resp, health(p, time))]
    ELSE [plugin |-> p, fs |-> files,
          response |-> WithError(resp, INTERNAL_ERROR, <<"Plugin is shut down">>)]

HandleHealth(p, files, time, resp) ==
    [plugin |-> p, fs |-> files, response |-> WithResult(resp, health(p, time))]

HandleDiscover(p, files, resp) ==
    [plugin |-> p, fs |-> files,
     response |-> WithResult(resp, discover_cameras(p))]

\* mutant: list_cameras before initialize is an error
HandleList_NeedsAuth(p, files, time, resp) ==
    IF p.auth.t = "none" THEN Caught(p, files, resp)
    ELSE [plugin |-> p, fs |-> files,
          response |-> WithResult(resp, list_cameras(p, time))]

HandleList(p, files, time, resp) ==
    [plugin |-> p, fs |-> files,
     response |-> WithResult(resp, list_cameras(p, time))]

\* mutant: `if result:` without its else branch
HandleGetCamera_NoElse(p, files, time, resp, params) ==
    IF ~IsDict(params) THEN Caught(p, files, resp)
    ELSE LET r == get_camera(p, time, Get(params, "camera_id", None)) IN
         [plugin |-> p, fs |-> files,
          response |-> IF r.found THEN WithResult(resp, r.cam) ELSE resp]

HandleGetCamera(p, files, time, resp, params) ==
    IF ~IsDict(params) THEN Caught(p, files, resp)
    ELSE LET r == get_camera(p, time, Get(params, "camera_id", None)) IN
         [plugin |-> p, fs |-> files,
          response |-> IF r.found THEN WithResult(resp, r.cam)
                       ELSE WithError(resp, INTERNAL_ERROR,
                                      <<"Camera not found">>)]

\* mutant: the display name asked for is stored as the device's name
HandleAddCamera_Renames(p, files, time, resp, params) ==
    IF ~IsDict(params) THEN Caught(p, files, resp)
    ELSE LET mac == Get(params, "mac", None)
             name == Get(params, "name", None)
             r == add_camera(p, time, mac, name)
         IN IF r.raised THEN Caught(p, files, resp)
            ELSE IF ~r.found
            THEN [plugin |-> p, fs |-> files,
                  response |-> WithError(resp, INTERNAL_ERROR,
                                         <<"Camera not found: ", mac>>)]
            ELSE [plugin |->
                     IF Truthy(name)
                     THEN [p EXCEPT !.auth.cameras =
                             DictSet(@, mac.s,
                                     [DictGet(@, mac.s) EXCEPT !.nickname = name.s])]
                     ELSE p,
                  fs |-> files, response |-> WithResult(resp, r.cam)]

HandleAddCamera(p, files, time, resp, params) ==
    IF ~IsDict(params) THEN Caught(p, files, resp)
    ELSE LET mac == Get(params, "mac", None)
             r == add_camera(p, time, mac, Get(params, "name", None))
         IN IF r.raised THEN Caught(p, files, resp)
            ELSE [plugin |-> p, fs |-> files,
                  response |-> IF r.found THEN WithResult(resp, r.cam)
                               ELSE WithError(resp, INTERNAL_ERROR,
                                              <<"Camera not found: ", mac>>)]

\* mutant: the unknown method is reported as an internal error
HandleUnknown_Internal(p, files, resp, method) ==
    [plugin |-> p, fs |-> files,
     response |-> WithError(resp, INTERNAL_ERROR,
                            <<"Method not found: ", method>>)]

HandleUnknown(p, files, resp, method) ==
    [plugin |-> p, fs |-> files,
     response |-> WithError(resp, METHOD_NOT_FOUND,
                            <<"Method not found: ", method>>)]

\* WyzePlugin.handle_request on a request that is a JSON object
handle_request(p, files, time, req, env) ==
    LET method == Get(req, "method", JStr(""))
        params == Get(req, "params", JObj(EmptyDict))
        resp == BaseResponse(Get(req, "id", None))
    IN CASE StrEq("initialize", method) ->
                HandleInitialize(p, files, time, resp, params, env)
         [] StrEq("shutdown", method) -> HandleShutdown(p, files, resp)
         [] StrEq("health", method) -> HandleHealth(p, files, time, resp)
         [] StrEq("discover_cameras", method) -> HandleDiscover(p, files, resp)
         [] StrEq("list_cameras", method) -> HandleList(p, files, time, resp)
         [] StrEq("get_camera", method) ->
                HandleGetCamera(p, files, time, resp, params)
         [] StrEq("add_camera", method) ->
                HandleAddCamera(p, files, time, resp, params)
         [] OTHER -> HandleUnknown(p, files, resp, method)

-----------------------------------------------------------------------------
(* Input lines *)

Creds == JObj([email |-> JStr("a@b.c"), password |-> JStr("pw")])
NoPassword == JObj([email |-> JStr("a@b.c")])

ParamChoices(method) ==
    CASE method = "initialize" -> {EmptyDict, [params |-> Creds],
                                   [params |-> NoPassword], [params |-> JArr]}
      [] method = "get_camera" ->
            {EmptyDict, [params |-> JArr]}
            \cup {[params |-> JObj([camera_id |-> JStr(m)])] :
                    m \in Macs \cup {"zz"}}
      [] method = "add_camera" ->
            {EmptyDict, [params |-> JArr],
             [params |-> JObj([mac |-> JArr])],
             [params |-> JObj([mac |-> JStr("zz")])],
             [params |-> JObj([mac |-> JStr("m2"), name |-> JStr("")])],
             [params |-> JObj([mac |-> JStr("m1")])],
             [params |-> JObj([mac |-> JStr("m1"), name |-> JStr("Gate")])]}
      [] OTHER -> {EmptyDict}

MethodChoices ==
    {[method |-> JStr(m)] : m \in KnownMethods \cup {"reboot"}}
    \cup {EmptyDict, [method |-> JNum(7)]}

IdChoices == {EmptyDict, [id |-> JNum(1)]}

MethodName(m) ==
    IF "method" \in DOMAIN m /\ m.method.t = "str" THEN m.method.s ELSE ""

\* requests that are JSON objects
Requests ==
    UNION {{JObj(i @@ m @@ q) : i \in IdChoices, q \in ParamChoices(MethodName(m))} :
            m \in MethodChoices}

NoLine == [kind |-> "none"]
Malformed == [kind |-> "malformed"]
Json(v) == [kind |-> "json", value |-> v]

\* stripped lines that are not empty
Lines ==
    {Malformed} \cup {Json(v) : v \in Requests \cup {JArr, None, JNum(42)}}

\* json.loads: [ok, value]; ok = FALSE is JSONDecodeError
json_loads(l) ==
    IF l.kind = "json" THEN [ok |-> TRUE, value |-> l.value]
    ELSE [ok |-> FALSE, value |-> None]

-----------------------------------------------------------------------------
(* stream_camera, as far as the control plane can observe it: the files it *)
(* reads and writes and the native sessions it holds open.                 *)

\* stream_camera up to the open session: [fs, ready]
stream_setup(files, time, mac, env) ==
    LET config == files.config IN
    IF config.t = "absent" \/ ~Truthy(config)
    THEN [fs |-> files, ready |-> FALSE]
    ELSE
    LET l == login(WyzeAuth(config), files, time, env) IN
    IF l.raised \/ ~DictHas(l.auth.cameras, mac)
    THEN [fs |-> l.fs, ready |-> FALSE]
    ELSE
    LET camera == auth_get_camera(l.auth, mac) IN
    IF camera.p2p_id = "" \/ camera.enr = ""
    THEN [fs |-> l.fs, ready |-> FALSE]
    ELSE LET got == get_tutk_library(l.fs, env.failAt # "tutk") IN
         [fs |-> got.fs, ready |-> got.lib.t # "none"]

OpenSessions == streams["m1"] + streams["m2"]

\* payloads recv_video_data yields: H264 NAL units, or nothing
Frames == {"", "a", "b"}

\* a stream_camera run before its first statement.  `calls` lists, in
\* order, the native library's initialize, the session's enter ("open") and
\* exit ("release"), the library's deinitialize, and the last log line
\* ("ended"); `failed` says the session raised; `pending` says an exception
\* is on its way out of stream_camera.
NotStarted ==
    [pc |-> "start", session |-> "none", frame |-> "", yielded |-> <<>>,
     out |-> <<>>, failed |-> FALSE, pending |-> FALSE, calls |-> <<>>]

\* leaving the `with` block: WyzeIOTCSession.__exit__ runs if it was entered
ExitWith(s) ==
    IF s.session = "open"
    THEN [s EXCEPT !.session = "released", !.calls = Append(@, "release")]
    ELSE s

-----------------------------------------------------------------------------
(* The state machine *)

InitialCaches ==
    {NoFile, Garbage,
     CacheFile(0, <<[k |-> "m1", v |-> CamFront]>>, "none"),
     CacheFile(0, <<[k |-> "m1", v |-> CamFront], [k |-> "m2", v |-> CamYard]>>,
               "m2"),
     CacheFile(0, <<[k |-> "m2", v |-> CamYard]>>, "account")}

Init ==
    /\ pc = "read"
    /\ line = NoLine
    /\ plugin = NewPlugin
    /\ fs \in [config : {NoFile}, cache : InitialCaches, lib : {FALSE}]
    /\ now = 0
    /\ written = 0
    /\ response = NoResponse
    /\ hist = [initCalled |-> FALSE, initOk |-> FALSE, wasRunning |-> TRUE]
    /\ streams = [m \in Macs |-> 0]
    /\ sc = NotStarted

\* for line in sys.stdin, line.strip() is not empty
ReadFrom(input) ==
    /\ pc = "read"
    /\ \E l \in input : line' = l
    /\ pc' = "handle"
    /\ written' = 0
    /\ response' = NoResponse
    /\ UNCHANGED <<plugin, fs, now, hist, streams, sc>>

ReadLine == ReadFrom(Lines)

\* an empty line: continue
SkipBlank ==
    /\ pc = "read"
    /\ UNCHANGED vars

\* mutant: the parse error response echoes a made-up id
ParseError_NoNullId ==
    /\ pc = "handle"
    /\ ~json_loads(line).ok
    /\ response' = WithError(BaseResponse(JNum(0)), PARSE_ERROR, <<"Parse error">>)
    /\ written' = written + 1
    /\ pc' = "read"
    /\ UNCHANGED <<line, plugin, fs, now, hist, streams, sc>>

\* json.loads raises JSONDecodeError: the parse error response is printed
ParseError ==
    /\ pc = "handle"
    /\ ~json_loads(line).ok
    /\ response' = WithError(BaseResponse(None), PARSE_ERROR, <<"Parse error">>)
    /\ written' = written + 1
    /\ pc' = "read"
    /\ UNCHANGED <<line, plugin, fs, now, hist, streams, sc>>

\* request.get on a value that is no dict: AttributeError leaves run_jsonrpc
Crash ==
    /\ pc = "handle"
    /\ json_loads(line).ok
    /\ ~IsDict(json_loads(line).value)
    /\ pc' = "crashed"
    /\ UNCHANGED <<line, plugin, fs, now, written, response, hist, streams, sc>>

IsInitialize(req) == StrEq("initialize", Get(req, "method", JStr("")))

\* handle_request and print(json.dumps(response))
Dispatch ==
    /\ pc = "handle"
    /\ json_loads(line).ok
    /\ IsDict(json_loads(line).value)
    /\ \E env \in IF IsInitialize(json_loads(line).value) THEN Envs ELSE {NoEnv} :
         LET req == json_loads(line).value
             out == handle_request(plugin, fs, now, req, env)
         IN /\ plugin' = out.plugin
            /\ fs' = out.fs
            /\ response' = out.response
            /\ hist' = [initCalled |-> hist.initCalled \/ IsInitialize(req),
                        initOk |-> hist.initOk
                                   \/ (IsInitialize(req) /\ HasResult(out.response)),
                        wasRunning |-> plugin.running]
    /\ written' = written + 1
    /\ pc' = "read"
    /\ UNCHANGED <<line, now, streams, sc>>

\* signal_handler: plugin.shutdown(), sys.exit(0)
Signal ==
    /\ pc \in {"read", "handle"}
    /\ plugin' = shutdown(plugin).plugin
    /\ pc' = "exited"
    /\ UNCHANGED <<line, fs, now, written, response, hist, streams, sc>>

\* sys.stdin is closed: the loop ends
EndOfInput ==
    /\ pc = "read"
    /\ pc' = "eof"
    /\ UNCHANGED <<line, plugin, fs, now, written, response, hist, streams, sc>>

\* time passes
Tick ==
    /\ \E d \in TickSteps : now + d <= MaxNow /\ now' = now + d
    /\ UNCHANGED <<pc, line, plugin, fs, hist, written, response, streams, sc>>

\* the media server runs `wyze_plugin.py stream <mac>`: stream_camera up to
\* the session being entered (sessionOk) or the process ending before
StreamStart(mac) ==
    /\ OpenSessions < MaxStreams
    /\ \E env \in Envs, sessionOk \in BOOLEAN :
         LET r == stream_setup(fs, now, mac, env) IN
         /\ fs' = r.fs
         /\ streams' = IF r.ready /\ sessionOk
                       THEN [streams EXCEPT ![mac] = @ + 1] ELSE streams
    /\ UNCHANGED <<pc, line, plugin, now, hist, written, response, sc>>

\* the frame loop of a stream ends: session released, process ends
StreamEnd(mac) ==
    /\ streams[mac] > 0
    /\ streams' = [streams EXCEPT ![mac] = @ - 1]
    /\ UNCHANGED <<pc, line, plugin, fs, now, hist, written, response, sc>>

Next ==
    \/ ReadLine
    \/ SkipBlank
    \/ ParseError
    \/ Crash
    \/ Dispatch
    \/ Signal
    \/ EndOfInput
    \/ Tick

Spec == Init /\ [][Next]_vars

\* the control plane next to the stream subprocesses the media server runs,
\* with the requests that configure the plugin and ask for its health
SystemLines ==
    {Json(JObj([id |-> JNum(1), method |-> JStr("initialize"), params |-> Creds])),
     Json(JObj([id |-> JNum(1), method |-> JStr("health")]))}

ReadSystemLine == ReadFrom(SystemLines)

NextSystem ==
    \/ ReadSystemLine
    \/ Dispatch
    \/ Tick
    \/ \E mac \in Macs : StreamStart(mac)
    \/ \E mac \in Macs : StreamEnd(mac)

SpecSystem == Init /\ [][NextSystem]_vars

-----------------------------------------------------------------------------
(* One run of `wyze_plugin.py stream <mac>`, statement by statement *)

\* the variables of the control plane, which a stream subprocess leaves alone
control == <<pc, line, plugin, written, response, hist, streams>>

\* load_config, login, get_camera, the p2p_id and enr checks and
\* get_tutk_library; any of them failing ends the process with sys.exit(1)
StreamSetup ==
    /\ sc.pc = "start"
    /\ \E mac \in Macs, env \in Envs :
         LET r == stream_setup(fs, now, mac, env) IN
         /\ fs' = r.fs
         /\ sc' = [sc EXCEPT !.pc = IF r.ready THEN "init" ELSE "exit1"]
    /\ UNCHANGED <<control, now>>

\* iotc.initialize(), before the try: an exception here leaves stream_camera
IotcInitialize ==
    /\ sc.pc = "init"
    /\ \E ok \in BOOLEAN :
         sc' = IF ok
               THEN [sc EXCEPT !.pc = "connect", !.calls = Append(@, "initialize")]
               ELSE [sc EXCEPT !.pc = "died", !.pending = TRUE]
    /\ UNCHANGED <<control, fs, now>>

\* `with WyzeIOTCSession(...) as session`: connected, or timeout / rejection
SessionEnter ==
    /\ sc.pc = "connect"
    /\ \E ok \in BOOLEAN :
         sc' = IF ok
               THEN [sc EXCEPT !.pc = "loop", !.session = "open",
                               !.calls = Append(@, "open")]
               ELSE [sc EXCEPT !.pc = "except", !.failed = TRUE]
    /\ UNCHANGED <<control, fs, now>>

\* `for frame in session.recv_video_data()`: the next frame is yielded
RecvFrame ==
    /\ sc.pc = "loop"
    /\ Len(sc.yielded) < MaxFrames
    /\ \E f \in Frames :
         sc' = [sc EXCEPT !.pc = "body", !.frame = f, !.yielded = Append(@, f)]
    /\ UNCHANGED <<control, fs, now>>

\* recv_video_data is exhausted: the loop and the `with` block are left
EndOfFrames ==
    /\ sc.pc = "loop"
    /\ sc' = [ExitWith(sc) EXCEPT !.pc = "finally"]
    /\ UNCHANGED <<control, fs, now>>

\* mutant: a session error leaves the session entered
SessionError_NoRelease ==
    /\ sc.pc = "loop"
    /\ sc' = [sc EXCEPT !.pc = "except", !.failed = TRUE]
    /\ UNCHANGED <<control, fs, now>>

\* recv_video_data raises (disconnect, timeout): the `with` block is left
\* through __exit__ and `except Exception` takes over
SessionError ==
    /\ sc.pc = "loop"
    /\ sc' = [ExitWith(sc) EXCEPT !.pc = "except", !.failed = TRUE]
    /\ UNCHANGED <<control, fs, now>>

\* mutant: an empty frame makes the loop write the frame before it again
WriteFrame_Rewrites ==
    /\ sc.pc = "body"
    /\ \E ok \in BOOLEAN :
         sc' = IF sc.frame = ""
               THEN [sc EXCEPT !.pc = "loop",
                               !.out = IF @ = <<>> THEN @ ELSE Append(@, @[Len(@)])]
               ELSE IF ok
               THEN [sc EXCEPT !.pc = "loop", !.out = Append(@, sc.frame)]
               ELSE [ExitWith(sc) EXCEPT !.pc = "except"]
    /\ UNCHANGED <<control, fs, now>>

\* the loop body: `if frame:` write and flush; a write error (consumer gone)
\* leaves the `with` block for `except Exception`
WriteFrame ==
    /\ sc.pc = "body"
    /\ \E ok \in BOOLEAN :
         sc' = IF sc.frame = ""
               THEN [sc EXCEPT !.pc = "loop"]
               ELSE IF ok
               THEN [sc EXCEPT !.pc = "loop", !.out = Append(@, sc.frame)]
               ELSE [ExitWith(sc) EXCEPT !.pc = "except"]
    /\ UNCHANGED <<control, fs, now>>

\* KeyboardInterrupt inside the try: the `with` block is left
Interrupt ==
    /\ sc.pc \in {"connect", "loop", "body"}
    /\ sc' = [ExitWith(sc) EXCEPT !.pc = "interrupted"]
    /\ UNCHANGED <<control, fs, now>>

\* except KeyboardInterrupt: one log line
HandleInterrupt ==
    /\ sc.pc = "interrupted"
    /\ sc' = [sc EXCEPT !.pc = "finally"]
    /\ UNCHANGED <<control, fs, now>>

\* mutant: the handler connects again
HandleException_Retries ==
    /\ sc.pc = "except"
    /\ sc' = [sc EXCEPT !.pc = "connect"]
    /\ UNCHANGED <<control, fs, now>>

\* except Exception: the error and its traceback are logged; the handler
\* itself can raise (traceback.format_exception, stderr), which `finally`
\* lets through after it has run
HandleException ==
    /\ sc.pc = "except"
    /\ \E raised \in BOOLEAN :
         sc' = [sc EXCEPT !.pc = "finally", !.pending = raised]
    /\ UNCHANGED <<control, fs, now>>

\* finally: iotc.deinitialize(), whose own exception is swallowed
Finally ==
    /\ sc.pc = "finally"
    /\ sc' = [sc EXCEPT !.pc = IF sc.pending THEN "died" ELSE "report",
                        !.calls = Append(@, "deinitialize")]
    /\ UNCHANGED <<control, fs, now>>

\* log("Stream ended"), and stream_camera returns
StreamEnded ==
    /\ sc.pc = "report"
    /\ sc' = [sc EXCEPT !.pc = "ended", !.calls = Append(@, "ended")]
    /\ UNCHANGED <<control, fs, now>>

\* the steps stream_camera takes by itself once the frame loop is left
Unwind == HandleInterrupt \/ HandleException \/ Finally \/ StreamEnded

\* the files an earlier control-plane process can have left behind
InitStream ==
    /\ pc = "read"
    /\ line = NoLine
    /\ plugin = NewPlugin
    /\ fs \in [config : {NoFile, Creds}, cache : InitialCaches, lib : BOOLEAN]
    /\ now = 0
    /\ written = 0
    /\ response = NoResponse
    /\ hist = [initCalled |-> FALSE, initOk |-> FALSE, wasRunning |-> TRUE]
    /\ streams = [m \in Macs |-> 0]
    /\ sc = NotStarted

NextStream ==
    \/ Tick
    \/ StreamSetup
    \/ IotcInitialize
    \/ SessionEnter
    \/ RecvFrame
    \/ EndOfFrames
    \/ SessionError
    \/ WriteFrame
    \/ Interrupt
    \/ HandleInterrupt
    \/ HandleException
    \/ Finally
    \/ StreamEnded

SpecStream == InitStream /\ [][NextStream]_vars

\* the interpreter keeps running the handlers, the finally block and the
\* last log line once the frame loop is left
SpecStreamFair == SpecStream /\ WF_vars(Unwind)

-----------------------------------------------------------------------------
(* Shorthands for the properties *)

\* the request in the line read last, when that line is a JSON object
IsRequest == line.kind = "json" /\ IsDict(line.value)
Method == Get(line.value, "method", JStr(""))
Params == Get(line.value, "params", JObj(EmptyDict))

\* the line read last has been answered and no other line was read since
Answered == pc = "read" /\ written = 1 /\ IsRequest

\* this step is handle_request answering the request in `line`
Answering == pc = "handle" /\ pc' = "read" /\ IsRequest

ErrorCode(resp) == IF HasError(resp) THEN resp.error.code ELSE 0

-----------------------------------------------------------------------------
\* C1 (as claimed): every non-empty line read has exactly one response line
\* by the time the loop reads on, ends, or dies with an exception; runs in
\* which a termination signal arrives are left out here.
C1_ExactlyOneResponse ==
    (pc \in {"read", "eof", "crashed"} /\ line.kind \in {"json", "malformed"})
        => written = 1

\* C2 (as claimed): a line whose handling fails because it is valid JSON but
\* no JSON object is answered with an error response, and the loop goes on.
C2_FailureBecomesErrorResponse ==
    (line.kind = "json" /\ ~IsDict(line.value) /\ pc \notin {"handle", "exited"})
        => (pc \in {"read", "eof"} /\ written = 1 /\ HasError(response))

C4_ResultXorErrorAndIdEchoed ==
    Answered =>
        /\ HasResult(response) # HasError(response)
        /\ response.id = (IF "id" \in DOMAIN line.value.o
                          THEN line.value.o["id"] ELSE None)

C4_Witness ==
    /\ Answered /\ "id" \notin DOMAIN line.value.o /\ response.id = None
    /\ StrEq("get_camera", Method) /\ HasError(response)

\* C5: a request is answered with error code -32601 exactly when its method
\* is none of the seven known ones (or is missing), and answering such a
\* request leaves the plugin and the files unchanged.
C5_MethodNotFound ==
    [][Answering =>
        /\ (ErrorCode(response') = METHOD_NOT_FOUND) <=> ~IsKnownMethod(Method)
        /\ ~IsKnownMethod(Method) => (plugin' = plugin /\ fs' = fs)]_vars

C5_Witness ==
    /\ Answered /\ "method" \notin DOMAIN line.value.o
    /\ ErrorCode(response) = METHOD_NOT_FOUND
    /\ hist.initOk

\* C6: in any state a shutdown request is answered with the result
\* {"status": "ok"} and no error; it leaves the running flag off and nothing
\* else changed, so a shutdown that follows a shutdown changes nothing.
C6_ShutdownIdempotent ==
    [][(Answering /\ StrEq("shutdown", Method)) =>
        /\ HasResult(response') /\ ~HasError(response')
        /\ response'.result = [status |-> "ok"]
        /\ plugin' = [plugin EXCEPT !.running = FALSE]
        /\ fs' = fs
        /\ ~plugin.running => plugin' = plugin]_vars

\* a second shutdown has been answered, after a successful initialize
C6_Witness ==
    /\ Answered /\ StrEq("shutdown", Method)
    /\ HasResult(response) /\ response.result = [status |-> "ok"]
    /\ ~hist.wasRunning /\ ~plugin.running /\ hist.initOk

\* C7: as long as no initialize request has been made, list_cameras and
\* discover_cameras are answered with a result that is the empty list.
C7_EmptyListsBeforeInitialize ==
    (Answered /\ ~hist.initCalled
        /\ (StrEq("list_cameras", Method) \/ StrEq("discover_cameras", Method)))
    => (HasResult(response) /\ ~HasError(response) /\ response.result = <<>>)

\* list_cameras answered before any initialize and after a shutdown
C7_Witness ==
    /\ Answered /\ ~hist.initCalled /\ StrEq("list_cameras", Method)
    /\ HasResult(response) /\ ~plugin.running

\* the aggregate health policy of the specification
HealthPolicy(p, open) ==
    IF p.auth.t = "none" \/ p.auth.auth_info.t = "none" THEN "unhealthy"
    ELSE IF open < Len(p.auth.cameras) THEN "degraded"
    ELSE "healthy"

\* C8 (as claimed): the state health reports is the policy's: unhealthy when
\* not authenticated, degraded when fewer device streams are running than
\* devices are known, healthy otherwise.
C8_HealthFollowsPolicy ==
    [][(Answering /\ StrEq("health", Method)) =>
        (HasResult(response')
         /\ response'.result.state = HealthPolicy(plugin, OpenSessions))]_vars

\* C9 (as claimed): while no initialize request has succeeded, health
\* reports the state unhealthy.
C9_UnhealthyUntilInitialized ==
    (Answered /\ StrEq("health", Method) /\ ~hist.initOk)
    => (HasResult(response) /\ response.result.state = "unhealthy")

\* the requested id names a device of the current device set
KnownCameraId ==
    /\ IsDict(Params)
    /\ "camera_id" \in DOMAIN Params.o
    /\ Params.o["camera_id"].t = "str"
    /\ plugin.auth.t = "auth"
    /\ \E i \in 1..Len(plugin.auth.cameras) :
          plugin.auth.cameras[i].v.mac = Params.o["camera_id"].s

\* C10: get_camera is answered with a result exactly when the requested id
\* is the identifier of a device of the current device set, the result being
\* that device's entry; otherwise the answer is an error with code -32603.
C10_GetCameraFindsExactlyKnownIds ==
    (Answered /\ StrEq("get_camera", Method)) =>
        /\ HasResult(response) <=> KnownCameraId
        /\ KnownCameraId =>
              /\ response.result.id = Params.o["camera_id"].s
              /\ \E i \in 1..Len(plugin.auth.cameras) :
                    /\ plugin.auth.cameras[i].v.mac = response.result.id
                    /\ plugin.auth.cameras[i].v.nickname = response.result.name
        /\ ~KnownCameraId => ErrorCode(response) = INTERNAL_ERROR

\* the second of two known devices has been looked up
C10_Witness ==
    /\ Answered /\ StrEq("get_camera", Method) /\ KnownCameraId
    /\ HasResult(response) /\ response.result.id = "m2"
    /\ Len(plugin.auth.cameras) = 2


\* what the requests that only read answer in a plugin state
Answers(p, time) ==
    [list |-> list_cameras(p, time),
     discover |-> discover_cameras(p),
     health |-> health(p, time),
     get |-> [m \in Macs \cup {"zz"} |-> get_camera(p, time, JStr(m))],
     add |-> [m \in Macs \cup {"zz"} |-> add_camera(p, time, JStr(m), None)]]

\* C11: answering an add_camera request, found or not, changes neither the
\* plugin (no device added, removed or renamed) nor the files, so
\* list_cameras, discover_cameras, get_camera and health answer afterwards
\* as they did before.
C11_AddCameraReadOnly ==
    [][(Answering /\ StrEq("add_camera", Method)) =>
        /\ plugin' = plugin
        /\ fs' = fs
        /\ Answers(plugin', now') = Answers(plugin, now)]_vars

\* add_camera answered with the display name asked for; the device keeps its
\* own name
C11_Witness ==
    /\ Answered /\ StrEq("add_camera", Method)
    /\ HasResult(response) /\ response.result.name = "Gate"
    /\ plugin.auth.t = "auth"
    /\ DictHas(plugin.auth.cameras, "m1")
    /\ DictGet(plugin.auth.cameras, "m1").nickname # "Gate"


\* C12: for a known device the result of add_camera has the same set of
\* fields as the result of get_camera for that device, with equal values in
\* every field but the timestamp and, when a name is given, the display name.
C12_AddCameraSameShapeAsGetCamera ==
    (Answered /\ StrEq("add_camera", Method) /\ HasResult(response)) =>
        LET a == response.result
            g == get_camera(plugin, now, Get(Params, "mac", None)).cam
        IN /\ DOMAIN a = DOMAIN g
           /\ \A f \in DOMAIN a \ {"name", "last_seen"} : a[f] = g[f]
           /\ Truthy(Get(Params, "name", None)) \/ a.name = g.name


\* the initialize request in `line` carries no usable credentials
MissingCredentials ==
    \/ ~IsDict(Params)
    \/ ~Truthy(Get(Params, "email", None))
    \/ ~Truthy(Get(Params, "password", None))

\* C13: an initialize request without an email or without a password is
\* answered with an error and never with a device count, whatever the state
\* of the authentication cache.
C13_MissingCredentialsRejected ==
    (Answered /\ StrEq("initialize", Method) /\ MissingCredentials) =>
        HasError(response)


\* C14: no device ever has two native sessions open at once; a second
\* stream for a device is rejected, or the first is torn down, before the
\* second opens its session.
C14_OneSessionPerDevice == \A mac \in Macs : streams[mac] <= 1


\* how often, and where first, a call appears in the calls of the stream run
Count(e) == Cardinality({i \in 1..Len(sc.calls) : sc.calls[i] = e})
Pos(e) == CHOOSE i \in 1..Len(sc.calls) : sc.calls[i] = e

\* the stream process is over: stream_camera returned, or an exit or an
\* exception ended it
StreamOver == sc.pc \in {"ended", "died", "exit1"}

\* C15: once the library is initialized and a session is open, the session
\* is released on every way out of the frame loop, the library is then
\* deinitialized exactly once, after the release and before "Stream ended"
\* is logged; deinitialize is never called without initialize before it.
C15_SessionReleasedThenDeinitializedOnce ==
    /\ Count("initialize") <= 1 /\ Count("deinitialize") <= 1
    /\ Count("open") <= 1 /\ Count("release") <= Count("open")
    /\ Count("deinitialize") = 1 =>
          /\ Count("initialize") = 1 /\ Pos("initialize") < Pos("deinitialize")
          /\ sc.session # "open"
          /\ Count("open") = 1 =>
                Count("release") = 1 /\ Pos("release") < Pos("deinitialize")
    /\ Count("ended") = 1 =>
          Count("deinitialize") = 1 /\ Pos("deinitialize") < Pos("ended")
    /\ (Count("open") = 1 /\ sc.pc \notin {"loop", "body"}) =>
          sc.session = "released"
    /\ (Count("open") = 1 /\ StreamOver) => Count("deinitialize") = 1

\* a session failed in mid-stream and the run went through release,
\* deinitialize and the last log line
C15_Witness ==
    /\ sc.failed /\ Len(sc.out) > 0
    /\ sc.calls = <<"initialize", "open", "release", "deinitialize", "ended">>

\* the frames of a sequence that `if frame:` lets through
NonEmpty(frames) == SelectSeq(frames, LAMBDA f : f # "")

\* C16: a session error ends the frame sequence and is not retried: one run
\* opens at most one session, writes nothing after the first session error,
\* and once the session has failed or is released the run comes to its end.
C16_SessionErrorEndsTheStream ==
    /\ [](Count("open") <= 1)
    /\ [][sc.failed => sc'.out = sc.out /\ sc'.session # "open"]_vars
    /\ (sc.failed \/ sc.session = "released") ~> StreamOver

\* frames were written, then the session failed, and the run has ended
C16_Witness ==
    /\ sc.failed /\ StreamOver
    /\ Len(sc.out) > 0 /\ Len(sc.out) = Len(NonEmpty(sc.yielded))
    /\ Len(sc.yielded) < MaxFrames

\* C17: what stream_camera has written is, in order, the non-empty frames
\* the session yielded: nothing twice, nothing out of order, and no frame
\* left out before a later one is written.
C17_FramesWrittenInOrder ==
    LET wanted == NonEmpty(sc.yielded) IN
    /\ Len(sc.out) <= Len(wanted)
    /\ sc.out = SubSeq(wanted, 1, Len(sc.out))
    /\ sc.pc = "loop" => sc.out = wanted
    /\ Len(wanted) - Len(sc.out) <= 1

\* three frames yielded, the empty one in the middle, two written
C17_Witness ==
    /\ sc.pc = "ended"
    /\ sc.yielded = <<"a", "", "b">>
    /\ sc.out = <<"a", "b">>


\* the cache file is missing, unreadable, or CACHE_TTL or more seconds old
StaleCache == fs.cache.t # "cache" \/ now - fs.cache.cached_at >= CACHE_TTL

\* C18: the cache is valid for 3600 seconds from its capture time.  An
\* initialize that succeeds on a missing, unreadable or 3600-second-old
\* cache has authenticated afresh (so it had credentials) and has rewritten
\* the cache with the current time and the devices fetched (or left the
\* file alone when writing it failed); one that succeeds on a younger cache
\* whose entries load serves the cached devices and leaves the file alone.
C18_CacheValidForTTL ==
    [][(Answering /\ StrEq("initialize", Method) /\ HasResult(response')) =>
        /\ StaleCache =>
              /\ ~MissingCredentials
              /\ plugin'.auth.auth_info = Credential
              /\ fs'.cache \in {fs.cache,
                                CacheFile(now, plugin'.auth.cameras, "none")}
        /\ (~StaleCache /\ fs.cache.bad = "none") =>
              /\ plugin'.auth.cameras = fs.cache.cameras
              /\ fs'.cache = fs.cache]_vars

\* a cache captured at time 0 has been replaced at time 3600 by a fresh
\* login, and a later initialize without credentials is served from it
C18_Witness ==
    /\ Answered /\ StrEq("initialize", Method) /\ HasResult(response)
    /\ now = CACHE_TTL
    /\ fs.cache.t = "cache" /\ fs.cache.cached_at = CACHE_TTL
    /\ MissingCredentials


\* this step is handle_request run against what the collaborators did in env
Explains(env) ==
    LET out == handle_request(plugin, fs, now, line.value, env)
    IN plugin' = out.plugin /\ fs' = out.fs /\ response' = out.response

\* the device set delivered by the fetch an initialize completes: the
\* cache's when the whole cache loads, else the inventory list's
Delivered(env) ==
    LET cache == load_auth_cache(fs, now) IN
    IF cache.t = "cache" /\ LoadFromCache(WyzeAuth(Params), cache).ok
    THEN cache.cameras
    ELSE DictUpdate(<<>>, env.inventory)

\* C19: after a successful initialize the known devices are exactly those
\* the completed fetch delivered, with none left from an earlier initialize
\* and none from a cache load that was given up.
C19_DeviceSetReplacedWholesale ==
    [][(Answering /\ StrEq("initialize", Method) /\ HasResult(response')) =>
        \A env \in Envs :
            Explains(env) => plugin'.auth.cameras = Delivered(env)]_vars


\* C20: an initialize that is answered with an error is fatal to that call
\* only: health, discover_cameras, list_cameras, get_camera and add_camera
\* answer after it as they would have without it, so the devices of an
\* earlier successful initialize are still served.
C20_FailedInitializeChangesNothing ==
    [][(Answering /\ StrEq("initialize", Method) /\ HasError(response')) =>
        Answers(plugin', now') = Answers(plugin, now)]_vars


\* the plugin as it would be had no shutdown been requested
NeverShutDown(p) == [p EXCEPT !.running = TRUE]

\* C21: a shutdown request changes only the running flag and the loop goes
\* on reading: the step that handles it, unless a signal ends the process,
\* prints one response and returns to reading with config, authentication,
\* devices and files as they were; and every request handled after a
\* shutdown gets the response, and has the effect on plugin and files, that
\* it would have had without it.
C21_ShutdownChangesOnlyRunningFlag ==
    [][/\ (pc = "handle" /\ IsRequest /\ StrEq("shutdown", Method)
              /\ pc' \notin {"handle", "exited"}) =>
            /\ pc' = "read" /\ written' = 1
            /\ plugin' = [plugin EXCEPT !.running = FALSE]
            /\ fs' = fs
       /\ (Answering /\ ~plugin.running) =>
            \A env \in IF IsInitialize(line.value) THEN Envs ELSE {NoEnv} :
               Explains(env) =>
                  LET out == handle_request(NeverShutDown(plugin), fs, now,
                                            line.value, env)
                  IN /\ response' = out.response
                     /\ fs' = out.fs
                     /\ NeverShutDown(plugin') = NeverShutDown(out.plugin)]_vars

\* after a shutdown a list_cameras request was read and answered with the
\* device of the initialize made before the shutdown
C21_Witness ==
    /\ Answered /\ StrEq("list_cameras", Method)
    /\ ~plugin.running /\ ~hist.wasRunning
    /\ HasResult(response) /\ Len(response.result) = 1

====
